---------------------------- MODULE Spec2Model ----------------------------
(***************************************************************************)
(* A model of the winit-input-map InputMap: the reverse index from input   *)
(* codes to (action, bind, slot) subscriptions, the incremental update of  *)
(* bind and action values, the pressed/released flags and the per-frame    *)
(* reset.                                                                  *)
(***************************************************************************)
EXTENDS Integers, Sequences, FiniteSets, TLC

(***************************************************************************)
(* f32.  A value is <<k, m, e>>: k = 0 is the finite number m * 2^e with   *)
(* m odd (or m = 0, e = 0), k = 1 is an infinity of sign m, k = 2 is NaN.  *)
(* Every operation rounds its exact result to the nearest value with at    *)
(* most MantBits significant bits, ties to even, as IEEE 754 does with 24  *)
(* bits for f32.  The sign of zero is not kept.                            *)
(***************************************************************************)
MantBits == 5

Pow2(n) == 2 ^ n

Abs(i) == IF i < 0 THEN -i ELSE i

Sgn(i) == IF i < 0 THEN -1 ELSE IF i > 0 THEN 1 ELSE 0

NaN == <<2, 0, 0>>

Inf(s) == <<1, s, 0>>

Zero == <<0, 0, 0>>

RECURSIVE Norm(_, _)
\* the canonical form of m * 2^e
Norm(m, e) ==
    IF m = 0 THEN Zero
    ELSE IF m % 2 = 0 THEN Norm(m \div 2, e + 1)
    ELSE <<0, m, e>>

RECURSIVE BitLen(_)
BitLen(a) == IF a = 0 THEN 0 ELSE 1 + BitLen(a \div 2)

\* s * a * 2^e (a >= 0) rounded to MantBits significant bits, ties to even
RoundInt(s, a, e) ==
    LET sh == BitLen(a) - MantBits IN
    IF sh <= 0 THEN Norm(s * a, e)
    ELSE LET q == a \div Pow2(sh)
             r == a % Pow2(sh)
             h == Pow2(sh - 1)
             up == r > h \/ (r = h /\ q % 2 = 1)
         IN Norm(s * (IF up THEN q + 1 ELSE q), e + sh)

\* s * (n / d) * 2^e (n >= 0, d > 0) rounded: the quotient is taken with
\* two bits more than MantBits and a sticky bit for the remainder
RoundRat(s, n, d, e) ==
    IF n = 0 THEN Zero
    ELSE LET k == MantBits + 2 + BitLen(d)
             q == (n * Pow2(k)) \div d
             st == IF (n * Pow2(k)) % d = 0 THEN 0 ELSE 1
         IN RoundInt(s, 2 * q + st, e - k - 1)

F(n, d) == RoundRat(Sgn(n), Abs(n), d, 0)

IsNaN(x) == x[1] = 2

is_finite(x) == x[1] = 0

FNeg(x) == IF x[1] = 2 THEN x ELSE <<x[1], -x[2], x[3]>>

FMul(x, y) ==
    IF IsNaN(x) \/ IsNaN(y) THEN NaN
    ELSE IF x[1] = 1 \/ y[1] = 1
         THEN IF x[2] = 0 \/ y[2] = 0 THEN NaN ELSE Inf(Sgn(x[2]) * Sgn(y[2]))
    ELSE RoundInt(Sgn(x[2]) * Sgn(y[2]), Abs(x[2]) * Abs(y[2]), x[3] + y[3])

FDiv(x, y) ==
    IF IsNaN(x) \/ IsNaN(y) THEN NaN
    ELSE IF x[1] = 1 THEN (IF y[1] = 1 THEN NaN
                           ELSE Inf(x[2] * (IF y[2] < 0 THEN -1 ELSE 1)))
    ELSE IF y[1] = 1 THEN Zero
    ELSE IF y[2] = 0 THEN (IF x[2] = 0 THEN NaN ELSE Inf(Sgn(x[2])))
    ELSE RoundRat(Sgn(x[2]) * Sgn(y[2]), Abs(x[2]), Abs(y[2]), x[3] - y[3])

FAdd(x, y) ==
    IF IsNaN(x) \/ IsNaN(y) THEN NaN
    ELSE IF x[1] = 1 THEN (IF y[1] = 1 /\ y[2] # x[2] THEN NaN ELSE x)
    ELSE IF y[1] = 1 THEN y
    ELSE LET e0 == IF x[3] < y[3] THEN x[3] ELSE y[3]
             a == x[2] * Pow2(x[3] - e0) + y[2] * Pow2(y[3] - e0)
         IN RoundInt(Sgn(a), Abs(a), e0)

FSub(x, y) == FAdd(x, FNeg(y))

\* the sign of x - y for two values that are not NaN
Cmp(x, y) ==
    IF x[1] = 1 THEN (IF y[1] = 1 /\ y[2] = x[2] THEN 0 ELSE x[2])
    ELSE IF y[1] = 1 THEN -y[2]
    ELSE LET e0 == IF x[3] < y[3] THEN x[3] ELSE y[3]
         IN Sgn(x[2] * Pow2(x[3] - e0) - y[2] * Pow2(y[3] - e0))

FGe(x, y) == ~IsNaN(x) /\ ~IsNaN(y) /\ Cmp(x, y) >= 0

FMax(x, y) == IF IsNaN(x) THEN y ELSE IF IsNaN(y) THEN x
              ELSE IF Cmp(x, y) >= 0 THEN x ELSE y

FMin(x, y) == IF IsNaN(x) THEN y ELSE IF IsNaN(y) THEN x
              ELSE IF Cmp(x, y) <= 0 THEN x ELSE y

One == F(1, 1)

(***************************************************************************)
(* Input codes.  A code is a record [kind, id, input]: kind "Device" or    *)
(* "Gamepad", id AnyId (any device or gamepad) or the number of one.       *)
(***************************************************************************)
AnyId == 0

\* the devices and gamepads that send events
DeviceIds == {1}

GamepadIds == {1}

\* DeviceInput::with_id, with_sid and From<DeviceInput> for InputCode
DeviceCode(id, input) == [kind |-> "Device", id |-> id, input |-> input]

\* GamepadInput::with_id, with_sid and From<GamepadInput> for InputCode
GamepadCode(id, input) == [kind |-> "Gamepad", id |-> id, input |-> input]

set_any(code) == [code EXCEPT !.id = AnyId]

\* a test that takes no code for the any-device form
never_any(code) == FALSE

is_any(code) == code.id = AnyId

\* Option<T>: None is the empty sequence, Some(v) the sequence of v alone
None == <<>>

Some(v) == <<v>>

(***************************************************************************)
(* The fields of InputMap.                                                 *)
(*   bind_hash   code -> sequence of <<action, bind index, slot index>>,   *)
(*               indices counted from 0 as in the source                   *)
(*   action_val  action -> <<value, pressed, released, sub values>>, the   *)
(*               sub values a sequence of <<bind value, slot values>>      *)
(***************************************************************************)
VARIABLES bind_hash, action_val, focus, recently_pressed, text_typed

\* the number of gamepad events polled so far whose value is neither 0.0 nor
\* 1.0: the environment's budget of analog readings, which bounds the model
VARIABLE analog_polled

\* the actions that went from not pressing to pressing in one operation since
\* the last init: a record of the current tick, kept by SpecTick alone
VARIABLE rose

\* whether init was the last operation: the point where the application
\* reads the flags of a fresh tick
VARIABLE after_init

\* InputMap::mouse_pos, a pair of f32
VARIABLE mouse_pos

\* the last operation and the events it carried (for get_binds, the binds it
\* returned), [op, evs]: what the application did last, kept by SpecScope,
\* SpecPad and SpecBinds
VARIABLE last

\* the gamepads whose South button is physically down, kept by SpecPad
VARIABLE pad_down

\* the number of add_binds and set_binds calls so far, kept by SpecBinds
VARIABLE rebinds

\* a second map, built from the same binds listed in another order, that
\* receives the same operations: kept by SpecOrder
VARIABLE other

\* the scaled deltas of the relative events since the last init, added up
\* per direction and per sender: kept by SpecMotion
VARIABLE moved

vars == <<bind_hash, action_val, focus, recently_pressed, text_typed,
          analog_polled, rose, after_init, mouse_pos, last, pad_down, rebinds,
          other, moved>>

\* what the specifications that keep no record of the operations leave alone
history == <<rose, last, pad_down, rebinds, other, moved>>

\* the records that only SpecOrder and SpecMotion keep
aside == <<other, moved>>

press_sensitivity == F(1, 2)

mouse_scale == F(1, 100)

scroll_scale == One

\* the map as a value: the fields the update engine reads and writes
Self == [bind_hash |-> bind_hash, action_val |-> action_val,
         recently_pressed |-> recently_pressed]

\* HashMap::entry(k).or_default() followed by a write of v
Put(h, k, v) == [i \in DOMAIN h \cup {k} |-> IF i = k THEN v ELSE h[i]]

EmptyMap == [i \in {} |-> 0]

ActionValueDefault == <<Zero, FALSE, FALSE, <<>>>>

\* the inner loop of add_binds: the slots of one bind, from slot code_i on
RECURSIVE AddCodes(_, _, _, _, _)
AddCodes(self, action, bind_i, bind, code_i) ==
    IF code_i >= Len(bind) THEN self
    ELSE LET code == bind[code_i + 1]
             av == self.action_val[action]
             sub == av[4][bind_i + 1]
             av2 == [av EXCEPT ![4][bind_i + 1] = <<sub[1], Append(sub[2], Zero)>>]
             old == IF code \in DOMAIN self.bind_hash
                    THEN self.bind_hash[code] ELSE <<>>
             next == [self EXCEPT
                        !.action_val = Put(self.action_val, action, av2),
                        !.bind_hash = Put(self.bind_hash, code,
                                          Append(old, <<action, bind_i, code_i>>))]
         IN AddCodes(next, action, bind_i, bind, code_i + 1)

\* the middle loop of add_binds: the binds of one action, from bind bind_i on
RECURSIVE AddBindsOf(_, _, _, _)
AddBindsOf(self, action, binds, bind_i) ==
    IF bind_i >= Len(binds) THEN self
    ELSE LET av == IF action \in DOMAIN self.action_val
                   THEN self.action_val[action] ELSE ActionValueDefault
             av2 == [av EXCEPT ![4] = Append(av[4], <<Zero, <<>>>>)]
             next == [self EXCEPT !.action_val = Put(self.action_val, action, av2)]
         IN AddBindsOf(AddCodes(next, action, bind_i, binds[bind_i + 1], 0),
                       action, binds, bind_i + 1)

\* add_binds: the outer loop, from entry k of the list on
RECURSIVE add_binds_from(_, _, _)
add_binds_from(self, binds, k) ==
    IF k > Len(binds) THEN self
    ELSE add_binds_from(AddBindsOf(self, binds[k][1], binds[k][2], 0), binds, k + 1)

add_binds(self, binds) == add_binds_from(self, binds, 1)

\* InputMap::default and InputMap::new
\* a set_binds that clears the action states and keeps the reverse index
set_binds_keep_index(self, binds) ==
    add_binds([self EXCEPT !.action_val = EmptyMap], binds)

\* InputMap::set_binds
set_binds(self, binds) == add_binds([self EXCEPT !.bind_hash = EmptyMap], binds)

\* get_binds: the body of the inner loop, for one subscription of input_code
GetOne(results, input_code, b) ==
    LET action == b[1]
        binds_i == b[2]
        bind_i == b[3]
        found == { i \in DOMAIN results : results[i][1] = action }
        results1 == IF found # {} THEN results ELSE Append(results, <<action, <<>>>>)
        action_i == IF found # {}
                    THEN CHOOSE i \in found : \A j \in found : i <= j
                    ELSE Len(results1)
        binds == results1[action_i][2]
        len == Len(binds)
        binds1 == IF binds_i >= len
                  THEN binds \o [k \in 1..(binds_i - len + 1) |-> <<>>]
                  ELSE binds
        vec == binds1[binds_i + 1]
        vlen == Len(vec)
        vec1 == IF bind_i >= vlen
                THEN vec \o [k \in 1..(bind_i - vlen + 1) |-> input_code]
                ELSE vec
    IN [results1 EXCEPT ![action_i] = <<action, [binds1 EXCEPT ![binds_i + 1] = vec1]>>]

\* get_binds: the inner loop, over the subscriptions of one code
RECURSIVE GetSubs(_, _, _, _)
GetSubs(results, input_code, subs, i) ==
    IF i > Len(subs) THEN results
    ELSE GetSubs(GetOne(results, input_code, subs[i]), input_code, subs, i + 1)

\* get_binds: the outer loop, over the codes in the order the hash map
\* iterates them
RECURSIVE GetCodes(_, _, _, _)
GetCodes(results, hash, order, k) ==
    IF k > Len(order) THEN results
    ELSE GetCodes(GetSubs(results, order[k], hash[order[k]], 1), hash, order, k + 1)

\* InputMap::get_binds, for one iteration order of bind_hash
get_binds(self, order) == GetCodes(<<>>, self.bind_hash, order, 1)

\* the orders in which a hash map with the keys D can iterate
Orders(D) ==
    { o \in [1..Cardinality(D) -> D] : \A i, j \in DOMAIN o : o[i] = o[j] => i = j }

Default == [bind_hash |-> EmptyMap, action_val |-> EmptyMap, recently_pressed |-> None]

new(binds) == add_binds(Default, binds)

(***************************************************************************)
(* The update engine.                                                      *)
(***************************************************************************)
\* the closures handed to modify_val: |_| val, |v| v + x and |v| v - x
SetTo(val) == [op |-> "set", x |-> val]

Plus(d) == [op |-> "add", x |-> d]

Minus(d) == [op |-> "sub", x |-> d]

Call(f, v) ==
    IF f.op = "set" THEN f.x
    ELSE IF f.op = "add" THEN FAdd(v, f.x)
    ELSE FSub(v, f.x)

\* slots.iter().fold(1.0, |a, b| a * b)
RECURSIVE FoldMul(_, _, _)
FoldMul(acc, slots, i) ==
    IF i > Len(slots) THEN acc ELSE FoldMul(FMul(acc, slots[i]), slots, i + 1)

Product(slots) == FoldMul(One, slots, 1)

\* the ratio update alone, without the product for a ratio that is not finite
RatioOnly(sub_value, change, slots) == FMul(sub_value, change)

\* the new value of a bind: the ratio update, or the product of its slots
\* when the ratio is not finite
NewSubVal(sub_value, change, slots) ==
    IF is_finite(change) THEN FMul(sub_value, change) ELSE Product(slots)

\* the pressed and released flags after a visit
EdgeFlags(now_pressing, pressing) ==
    <<now_pressing /\ ~pressing, ~now_pressing /\ pressing>>

\* a visit that records the code as recently pressed whatever its form
VisitRecordsAny(self, input_code, f, bind) ==
    LET action == bind[1]
        index == bind[2]
        sub_index == bind[3]
        av == self.action_val[action]
        old_sub_sub_val == av[4][index + 1][2][sub_index + 1]
        new_sub_sub_val == Call(f, old_sub_sub_val)
        change == FDiv(new_sub_sub_val, old_sub_sub_val)
        slots == [av[4][index + 1][2] EXCEPT ![sub_index + 1] = new_sub_sub_val]
        sub_value == av[4][index + 1][1]
        new_sub_val == NewSubVal(sub_value, change, slots)
        curr_val == FAdd(av[1], FSub(new_sub_val, sub_value))
        now_pressing == FGe(curr_val, press_sensitivity)
        flags == EdgeFlags(now_pressing, av[2])
        av2 == <<curr_val, flags[1], flags[2],
                 [av[4] EXCEPT ![index + 1] = <<new_sub_val, slots>>]>>
    IN [self EXCEPT
          !.action_val = [self.action_val EXCEPT ![action] = av2],
          !.recently_pressed =
              IF now_pressing THEN Some(input_code) ELSE self.recently_pressed]

\* the body of the loop of modify_single_val for one subscription
Visit(self, input_code, f, bind) ==
    LET action == bind[1]
        index == bind[2]
        sub_index == bind[3]
        av == self.action_val[action]
        old_sub_sub_val == av[4][index + 1][2][sub_index + 1]
        new_sub_sub_val == Call(f, old_sub_sub_val)
        change == FDiv(new_sub_sub_val, old_sub_sub_val)
        slots == [av[4][index + 1][2] EXCEPT ![sub_index + 1] = new_sub_sub_val]
        sub_value == av[4][index + 1][1]
        new_sub_val == NewSubVal(sub_value, change, slots)
        curr_val == FAdd(av[1], FSub(new_sub_val, sub_value))
        now_pressing == FGe(curr_val, press_sensitivity)
        flags == EdgeFlags(now_pressing, av[2])
        av2 == <<curr_val, flags[1], flags[2],
                 [av[4] EXCEPT ![index + 1] = <<new_sub_val, slots>>]>>
    IN [self EXCEPT
          !.action_val = [self.action_val EXCEPT ![action] = av2],
          !.recently_pressed =
              IF now_pressing /\ ~is_any(input_code)
              THEN Some(input_code) ELSE self.recently_pressed]

RECURSIVE VisitAll(_, _, _, _, _)
VisitAll(self, input_code, f, binds, i) ==
    IF i > Len(binds) THEN self
    ELSE VisitAll(Visit(self, input_code, f, binds[i]), input_code, f, binds, i + 1)

\* an update that sweeps the table: the actions the code does not reach lose
\* their pressed and released flags
modify_single_val_sweep(self, input_code, f) ==
    IF input_code \notin DOMAIN self.bind_hash
    THEN IF FGe(Call(f, Zero), press_sensitivity) /\ ~is_any(input_code)
         THEN [self EXCEPT !.recently_pressed = Some(input_code)]
         ELSE self
    ELSE LET binds == self.bind_hash[input_code]
             s == VisitAll(self, input_code, f, binds, 1)
             reached == { binds[i][1] : i \in DOMAIN binds }
         IN [s EXCEPT !.action_val =
                [a \in DOMAIN s.action_val |->
                    IF a \in reached THEN s.action_val[a]
                    ELSE <<s.action_val[a][1], FALSE, FALSE, s.action_val[a][4]>>]]

\* an update that stops after the first subscription of the code
modify_single_val_first(self, input_code, f) ==
    IF input_code \notin DOMAIN self.bind_hash
    THEN IF FGe(Call(f, Zero), press_sensitivity) /\ ~is_any(input_code)
         THEN [self EXCEPT !.recently_pressed = Some(input_code)]
         ELSE self
    ELSE VisitAll(self, input_code, f, SubSeq(self.bind_hash[input_code], 1, 1), 1)

modify_single_val(self, input_code, f) ==
    IF input_code \notin DOMAIN self.bind_hash
    THEN IF FGe(Call(f, Zero), press_sensitivity) /\ ~is_any(input_code)
         THEN [self EXCEPT !.recently_pressed = Some(input_code)]
         ELSE self
    ELSE VisitAll(self, input_code, f, self.bind_hash[input_code], 1)

\* both calls made with the any-device form of the code
modify_val_any_twice(self, input_code, f) ==
    modify_single_val(modify_single_val(self, set_any(input_code), f),
                      set_any(input_code), f)

modify_val(self, input_code, f) ==
    modify_single_val(modify_single_val(self, input_code, f), set_any(input_code), f)

update_val(self, input_code, val) == modify_val(self, input_code, SetTo(val))

(***************************************************************************)
(* Queries.                                                                *)
(***************************************************************************)
\* a query that reads 1.0 for an action the map has no entry for
value_or_one(action) ==
    IF action \in DOMAIN action_val THEN action_val[action][1] ELSE One

value(action) ==
    IF action \in DOMAIN action_val THEN action_val[action][1] ELSE Zero

pressing(action) == FGe(value(action), press_sensitivity)

pressed(action) ==
    IF action \in DOMAIN action_val THEN action_val[action][2] ELSE FALSE

released(action) ==
    IF action \in DOMAIN action_val THEN action_val[action][3] ELSE FALSE

(***************************************************************************)
(* The bind table the map is built with, after the crate's examples: a     *)
(* chord, an action with a key bind and a gamepad bind, an action whose    *)
(* two binds share a key (as Test1 of bench_input does), a mouse look.     *)
(***************************************************************************)
Key(k) == DeviceCode(AnyId, k)

InitialBinds ==
    << <<"Dash", << <<Key("ShiftLeft"), Key("KeyW")>> >> >>,
       <<"Jump", << <<Key("Space")>>, <<GamepadCode(AnyId, "South")>> >> >>,
       <<"Test1", << <<Key("KeyW")>>, <<Key("ShiftLeft"), Key("KeyW")>> >> >>,
       <<"LookRight", << <<Key("MouseMoveRight")>> >> >> >>

Actions == {"Dash", "Jump", "Test1", "LookRight"}

Keys == {"ShiftLeft", "KeyW", "Space"}

Buttons == {"South"}

\* the values a gamepad button reports: released and fully pressed, and with
\* two partial readings
DigitalVals == {Zero, One}

ButtonVals == {Zero, F(3, 32), F(11, 16), One}

\* raw mouse deltas (x, y)
MouseDeltas == {<<F(64, 1), Zero>>, <<F(-64, 1), Zero>>}

\* the text a key event carries
Texts == {None, Some(<<"a">>)}

MaxText == 1

MaxMove == 1

MaxPoll == 1

MaxAnalog == 2

(***************************************************************************)
(* Event handlers.                                                         *)
(***************************************************************************)
Commit(self) ==
    /\ bind_hash' = self.bind_hash
    /\ action_val' = self.action_val
    /\ recently_pressed' = self.recently_pressed

\* the text after a key event
TextAfter(typed, text) ==
    IF typed # None /\ text # None THEN Some(typed[1] \o text[1]) ELSE text

TextFits(typed) == IF typed = None THEN TRUE ELSE Len(typed[1]) <= MaxText

\* bool -> f32
BoolToF32(b) == IF b THEN One ELSE Zero

\* update_with_window_event, KeyboardInput: update_keys
KeyboardInput(id, key, is_pressed, text) ==
    /\ text_typed' = TextAfter(text_typed, text)
    /\ Commit(update_val(Self, DeviceCode(id, key), BoolToF32(is_pressed)))
    /\ UNCHANGED <<focus, analog_polled, mouse_pos>>

\* the values of the slots subscribed to a code
SlotsOf(code) ==
    IF code \notin DOMAIN bind_hash THEN {}
    ELSE { action_val[b[1]][4][b[2] + 1][2][b[3] + 1] :
             b \in { bind_hash[code][i] : i \in DOMAIN bind_hash[code] } }

MoveInputs == {"MouseMoveLeft", "MouseMoveRight", "MouseMoveUp", "MouseMoveDown"}

\* update_with_device_event, MouseMotion
MouseMotion(id, delta) ==
    LET x == FMul(delta[1], mouse_scale)
        y == FMul(delta[2], mouse_scale)
        s1 == modify_val(Self, DeviceCode(id, "MouseMoveRight"), Plus(FMax(x, Zero)))
        s2 == modify_val(s1, DeviceCode(id, "MouseMoveLeft"), Minus(FMin(x, Zero)))
        s3 == modify_val(s2, DeviceCode(id, "MouseMoveDown"), Plus(FMax(y, Zero)))
        s4 == modify_val(s3, DeviceCode(id, "MouseMoveUp"), Minus(FMin(y, Zero)))
    IN /\ \A i \in MoveInputs : \A d \in {AnyId, id} :
              \A v \in SlotsOf(DeviceCode(d, i)) : ~FGe(v, F(MaxMove, 1))
       /\ Commit(s4)
       /\ UNCHANGED <<focus, text_typed, analog_polled, mouse_pos>>

ScrollInputs ==
    {"MouseScrollUp", "MouseScrollDown", "MouseScrollLeft", "MouseScrollRight"}

\* update_scroll, for a LineDelta(x, y)
update_scroll(self, delta, id) ==
    LET x == FMul(delta[1], scroll_scale)
        y == FMul(delta[2], scroll_scale)
        s1 == modify_val(self, DeviceCode(id, "MouseScrollUp"), Plus(FMax(y, Zero)))
        s2 == modify_val(s1, DeviceCode(id, "MouseScrollDown"), Minus(FMin(y, Zero)))
        s3 == modify_val(s2, DeviceCode(id, "MouseScrollLeft"), Plus(FMax(x, Zero)))
    IN modify_val(s3, DeviceCode(id, "MouseScrollRight"), Minus(FMin(x, Zero)))

\* update_with_device_event and update_with_window_event, MouseWheel
MouseWheel(id, delta) ==
    /\ \A i \in ScrollInputs : \A d \in {AnyId, id} :
           \A v \in SlotsOf(DeviceCode(d, i)) : ~FGe(v, F(MaxMove, 1))
    /\ Commit(update_scroll(Self, delta, id))
    /\ UNCHANGED <<focus, text_typed, analog_polled, mouse_pos>>

\* From<Button> for GamepadInput
ButtonInput(b) == b

\* input_code::axis_neg
axis_neg(axis) ==
    CASE axis = "LeftStickX" -> "LeftStickLeft"
      [] axis = "LeftStickY" -> "LeftStickDown"
      [] axis = "RightStickX" -> "RightStickLeft"
      [] axis = "RightStickY" -> "RightStickDown"
      [] axis = "LeftZ" -> "LeftZ"
      [] axis = "RightZ" -> "RightZ"
      [] axis = "DPadX" -> "DPadLeft"
      [] axis = "DPadY" -> "DPadDown"
      [] axis = "Unknown" -> "Other"

\* input_code::axis_pos
axis_pos(axis) ==
    CASE axis = "LeftStickX" -> "LeftStickRight"
      [] axis = "LeftStickY" -> "LeftStickUp"
      [] axis = "RightStickX" -> "RightStickRight"
      [] axis = "RightStickY" -> "RightStickUp"
      [] axis = "LeftZ" -> "LeftZ"
      [] axis = "RightZ" -> "RightZ"
      [] axis = "DPadX" -> "DPadRight"
      [] axis = "DPadY" -> "DPadUp"
      [] axis = "Unknown" -> "Other"

\* update_gamepad, AxisChanged
AxisChanged(self, id, b, v) ==
    LET dir_pos == FMax(v, Zero)
        dir_neg == FMax(FNeg(v), Zero)
        input_pos == axis_pos(b)
        input_neg == axis_neg(b)
    IN update_val(update_val(self, GamepadCode(id, input_pos), dir_pos),
                  GamepadCode(id, input_neg), dir_neg)

\* the inputs a Disconnected event resets, in the order of the source
PadInputs ==
    <<"LeftStickLeft", "LeftStickRight", "LeftStickUp", "LeftStickDown",
      "LeftStickPress", "RightStickLeft", "RightStickRight", "RightStickUp",
      "RightStickDown", "RightStickPress", "DPadLeft", "DPadRight", "DPadUp",
      "DPadDown", "LeftZ", "RightZ", "South", "East", "North", "West",
      "LeftBumper", "LeftTrigger", "RightBumper", "RightTrigger", "Select",
      "Start", "Mode", "Other">>

\* update_gamepad, Disconnected: the loop over the inputs from input i on
RECURSIVE DisconnectFrom(_, _, _)
DisconnectFrom(self, id, i) ==
    IF i > Len(PadInputs) THEN self
    ELSE LET s == update_val(self, GamepadCode(id, PadInputs[i]), Zero)
         IN IF DOMAIN s = {} THEN s ELSE DisconnectFrom(s, id, i + 1)

\* a handler that knows the button events only
update_gamepad_buttons(self, ev) ==
    IF ev.type = "ButtonChanged"
    THEN update_val(self, GamepadCode(ev.id, ButtonInput(ev.button)), ev.value)
    ELSE self

\* update_gamepad
update_gamepad(self, ev) ==
    CASE ev.type = "ButtonChanged" ->
           update_val(self, GamepadCode(ev.id, ButtonInput(ev.button)), ev.value)
      [] ev.type = "AxisChanged" -> AxisChanged(self, ev.id, ev.axis, ev.value)
      [] ev.type = "Disconnected" -> DisconnectFrom(self, ev.id, 1)
      [] OTHER -> self

GamepadEvents(vals) ==
    [id : GamepadIds, type : {"ButtonChanged"}, button : Buttons, value : vals]

\* a poll that applies the events whether or not the window has focus
RECURSIVE PollAlways(_, _, _)
PollAlways(self, evs, i) ==
    IF i > Len(evs) THEN self
    ELSE PollAlways(update_gamepad(self, evs[i]), evs, i + 1)

\* the loop of update_with_gilrs over the pending events
RECURSIVE PollFrom(_, _, _)
PollFrom(self, evs, i) ==
    IF i > Len(evs) THEN self
    ELSE PollFrom(IF focus THEN update_gamepad(self, evs[i]) ELSE self, evs, i + 1)

\* how many of the events carry an analog reading
Analog(evs) ==
    Cardinality({ i \in DOMAIN evs :
                    evs[i].type = "ButtonChanged" /\ evs[i].value \notin {Zero, One} })

update_with_gilrs(evs) ==
    /\ analog_polled + Analog(evs) <= MaxAnalog
    /\ analog_polled' = analog_polled + Analog(evs)
    /\ Commit(PollFrom(Self, evs, 1))
    /\ UNCHANGED <<focus, text_typed, mouse_pos>>

\* update_with_window_event, CursorMoved: update_mouse
CursorMoved(position) ==
    /\ mouse_pos' = position
    /\ UNCHANGED <<bind_hash, action_val, focus, recently_pressed, text_typed,
                   analog_polled>>

\* a loss of focus that zeroes the value of the action alone
ZeroValueOnly(av) == <<Zero, av[2], av[3], av[4]>>

\* update_with_window_event, Focused
ZeroAction(av) ==
    <<Zero, av[2], av[3],
      [i \in DOMAIN av[4] |-> <<Zero, [j \in DOMAIN av[4][i][2] |-> Zero]>>]>>

Focused(b) ==
    /\ focus' = b
    /\ action_val' = IF b THEN action_val
                     ELSE [a \in DOMAIN action_val |-> ZeroAction(action_val[a])]
    /\ UNCHANGED <<bind_hash, recently_pressed, text_typed, analog_polled, mouse_pos>>

\* the identities init resets, in the order of the source
ResetInputs ==
    <<"MouseMoveLeft", "MouseMoveRight", "MouseMoveUp", "MouseMoveDown",
      "MouseScrollUp", "MouseScrollDown", "MouseScrollLeft", "MouseScrollRight">>

\* the relative-delta identities: the mouse motion and scroll directions
IsRelative(code) ==
    code.kind = "Device" /\ code.input \in { ResetInputs[i] : i \in DOMAIN ResetInputs }

RECURSIVE ResetFrom(_, _)
ResetFrom(self, i) ==
    IF i > Len(ResetInputs) THEN self
    ELSE ResetFrom(update_val(self, DeviceCode(AnyId, ResetInputs[i]), Zero), i + 1)

\* a reset that forgets the released flag
ClearPressedOnly(av) == <<av[1], FALSE, av[3], av[4]>>

\* x.1 = false; x.2 = false
ClearFlags(av) == <<av[1], FALSE, FALSE, av[4]>>

\* a reset that zeroes every value and slot, the level state included
ZeroAllReset(self) ==
    [self EXCEPT !.action_val = [a \in DOMAIN self.action_val |->
                                   ClearFlags(ZeroAction(self.action_val[a]))],
                 !.recently_pressed = None]

\* InputMap::init, the value of the map after it
InitResult(self) ==
    LET s == ResetFrom(self, 1)
    IN [s EXCEPT !.action_val = [a \in DOMAIN s.action_val |-> ClearFlags(s.action_val[a])],
                 !.recently_pressed = None]

init ==
    /\ Commit(InitResult(Self))
    /\ text_typed' = None
    /\ UNCHANGED <<focus, analog_polled, mouse_pos>>

(***************************************************************************)
(* The specification.                                                      *)
(***************************************************************************)
NoOp == [op |-> "new", evs |-> <<>>]

\* the state after InputMap::new(binds), with the second map twin
InitMaps(binds, twin) ==
    /\ bind_hash = new(binds).bind_hash
    /\ action_val = new(binds).action_val
    /\ recently_pressed = None
    /\ text_typed = None
    /\ focus = TRUE
    /\ mouse_pos = <<Zero, Zero>>
    /\ analog_polled = 0
    /\ rose = {}
    /\ after_init = FALSE
    /\ last = NoOp
    /\ pad_down = {}
    /\ rebinds = 0
    /\ other = twin
    /\ moved = [code \in { k \in DOMAIN new(binds).bind_hash : IsRelative(k) } |-> Zero]

\* the state after InputMap::new(binds)
InitWith(binds) == InitMaps(binds, Default)

Init == InitWith(InitialBinds)

PollBatches(vals) == UNION { [1..n -> GamepadEvents(vals)] : n \in 0..MaxPoll }

Event ==
    \/ \E id \in DeviceIds, key \in Keys, text \in Texts :
          TextFits(TextAfter(text_typed, text)) /\ KeyboardInput(id, key, TRUE, text)
    \/ \E id \in DeviceIds, key \in Keys : KeyboardInput(id, key, FALSE, None)
    \/ \E id \in DeviceIds, delta \in MouseDeltas : MouseMotion(id, delta)
    \/ \E evs \in PollBatches(DigitalVals) : update_with_gilrs(evs)

Next ==
    \/ Event /\ after_init' = FALSE /\ UNCHANGED history
    \/ (\E b \in BOOLEAN : Focused(b)) /\ after_init' = FALSE /\ UNCHANGED history
    \/ init /\ after_init' = TRUE /\ UNCHANGED history

\* the keyboard, mouse motion, gamepad button, focus and reset handlers, with
\* keys and buttons that are up or down
Spec == Init /\ [][Next]_vars

EventAnalog ==
    \/ \E id \in DeviceIds, key \in Keys, is_pressed \in BOOLEAN :
          KeyboardInput(id, key, is_pressed, None)
    \/ \E evs \in PollBatches(ButtonVals) : update_with_gilrs(evs)

NextAnalog ==
    \/ EventAnalog /\ after_init' = FALSE /\ UNCHANGED history
    \/ init /\ after_init' = TRUE /\ UNCHANGED history

\* keys and a gamepad button with partial readings
SpecAnalog == Init /\ [][NextAnalog]_vars

EventTick ==
    \/ \E id \in DeviceIds, key \in Keys, is_pressed \in BOOLEAN :
          KeyboardInput(id, key, is_pressed, None)
    \/ \E evs \in PollBatches(DigitalVals) : update_with_gilrs(evs)

\* the actions an operation takes from not pressing to pressing
Rising == { a \in Actions : ~pressing(a) /\ pressing(a)' }

NextTick ==
    \/ EventTick /\ after_init' = FALSE /\ rose' = rose \cup Rising
                 /\ UNCHANGED <<last, pad_down, rebinds, aside>>
    \/ init /\ after_init' = TRUE /\ rose' = {}
            /\ UNCHANGED <<last, pad_down, rebinds, aside>>

\* keys, buttons and the reset, with the record of the tick's rising edges
SpecTick == Init /\ [][NextTick]_vars

(***************************************************************************)
(* Properties.                                                             *)
(***************************************************************************)
\* the record of init as the last operation
RecordInit ==
    /\ after_init' = TRUE
    /\ last' = [op |-> "init", evs |-> <<>>]
    /\ UNCHANGED <<rose, pad_down, rebinds, aside>>

(***************************************************************************)
(* Rebinding: add_binds, set_binds and get_binds on a map in use.          *)
(***************************************************************************)
BindsA ==
    << <<"Jump", << <<Key("Space")>> >> >>,
       <<"Dash", << <<Key("ShiftLeft"), Key("KeyW")>> >> >> >>

\* the binds add_binds is called with: one for an action that has binds, one
\* for a new action, and two binds, the second a chord, for an action that
\* has one
AddOptions ==
    { << <<"Jump", << <<Key("KeyC")>> >> >> >>,
      << <<"Crouch", << <<Key("KeyC")>> >> >> >>,
      << <<"Dash", << <<Key("KeyC")>>, <<Key("Space"), Key("KeyC")>> >> >> >> }

\* the binds set_binds is called with
SetOptions == { << <<"Dash", << <<Key("KeyW")>> >> >> >> }

BindActions == {"Jump", "Dash", "Crouch"}

BindKeys == {"Space", "KeyW", "KeyC"}

MaxRebinds == 1

\* the fields set_binds and add_binds leave alone
Rebound(self) ==
    /\ Commit(self)
    /\ UNCHANGED <<focus, text_typed, analog_polled, mouse_pos>>

NextBinds ==
    \/ \E id \in DeviceIds, key \in BindKeys, is_pressed \in BOOLEAN :
          /\ KeyboardInput(id, key, is_pressed, None)
          /\ after_init' = FALSE
          /\ last' = [op |-> "key", evs |-> <<>>]
          /\ UNCHANGED <<rose, pad_down, rebinds, aside>>
    \/ \E binds \in AddOptions :
          /\ rebinds < MaxRebinds
          /\ Rebound(add_binds(Self, binds))
          /\ after_init' = FALSE
          /\ last' = [op |-> "add", evs |-> binds]
          /\ rebinds' = rebinds + 1
          /\ UNCHANGED <<rose, pad_down, aside>>
    \/ \E binds \in SetOptions :
          /\ rebinds < MaxRebinds
          /\ Rebound(set_binds(Self, binds))
          /\ after_init' = FALSE
          /\ last' = [op |-> "set", evs |-> binds]
          /\ rebinds' = rebinds + 1
          /\ UNCHANGED <<rose, pad_down, aside>>
    \/ \E order \in Orders(DOMAIN bind_hash) :
          /\ after_init' = FALSE
          /\ last' = [op |-> "get", evs |-> get_binds(Self, order)]
          /\ UNCHANGED <<bind_hash, action_val, focus, recently_pressed, text_typed,
                         analog_polled, mouse_pos, rose, pad_down, rebinds, aside>>
    \/ init /\ RecordInit

\* keys and the reset on a map whose binds are added to, replaced and read
SpecBinds == InitWith(BindsA) /\ [][NextBinds]_vars

(***************************************************************************)
(* Scopes: binds on the any-device and on the one-device form of the same  *)
(* input, two gamepads, a key that nothing is bound to.                    *)
(***************************************************************************)
ScopeBinds ==
    << <<"Look", << <<DeviceCode(AnyId, "MouseMoveRight")>> >> >>,
       <<"LookDev", << <<DeviceCode(1, "MouseMoveRight")>> >> >>,
       <<"Hold", << <<Key("Space")>>, <<GamepadCode(AnyId, "South")>> >> >> >>

ScopeActions == {"Look", "LookDev", "Hold"}

PadBinds ==
    << <<"Fire", << <<GamepadCode(AnyId, "South")>> >> >>,
       <<"FireOne", << <<GamepadCode(1, "South")>> >> >> >>

PadActions == {"Fire", "FireOne"}

ScopeKeys == {"Space", "KeyQ"}

PadIds == {1, 2}

\* cursor positions
Positions == {<<Zero, Zero>>, <<One, Zero>>}

PadEvents ==
    [id : PadIds, type : {"ButtonChanged"}, button : Buttons, value : DigitalVals]
        \cup [id : PadIds, type : {"Disconnected"}]

PadBatches == UNION { [1..n -> PadEvents] : n \in 0..MaxPoll }

\* the records of the events in last.evs
KeyEv(id, key, is_pressed) ==
    [type |-> "Key", id |-> id, input |-> key, value |-> BoolToF32(is_pressed)]

MotionEv(id, delta) == [type |-> "Motion", id |-> id, delta |-> delta]

\* the gamepads that hold South down after the events evs[i..]
RECURSIVE DownAfter(_, _, _)
DownAfter(down, evs, i) ==
    IF i > Len(evs) THEN down
    ELSE DownAfter(IF evs[i].type = "ButtonChanged" /\ evs[i].value # Zero
                   THEN down \cup {evs[i].id} ELSE down \ {evs[i].id},
                   evs, i + 1)

\* the record of an operation other than a poll or init
Record(op, evs) ==
    /\ after_init' = FALSE
    /\ last' = [op |-> op, evs |-> evs]
    /\ UNCHANGED <<rose, pad_down, rebinds, aside>>

NextScope ==
    \/ \E id \in DeviceIds, key \in ScopeKeys, is_pressed \in BOOLEAN :
          KeyboardInput(id, key, is_pressed, None)
              /\ Record("key", <<KeyEv(id, key, is_pressed)>>)
    \/ \E id \in DeviceIds, delta \in MouseDeltas :
          MouseMotion(id, delta) /\ Record("motion", <<MotionEv(id, delta)>>)
    \/ \E position \in Positions : CursorMoved(position) /\ Record("cursor", <<>>)
    \/ \E evs \in PollBatches(DigitalVals) :
          update_with_gilrs(evs) /\ Record("poll", evs)
    \/ init /\ RecordInit

\* keys, mouse motion, the cursor, a gamepad button and the reset, over binds
\* of both scopes,
\* with the record of the last operation
SpecScope == InitWith(ScopeBinds) /\ [][NextScope]_vars

NextPad ==
    \/ \E evs \in PadBatches :
          /\ update_with_gilrs(evs)
          /\ after_init' = FALSE
          /\ last' = [op |-> "poll", evs |-> evs]
          /\ pad_down' = DownAfter(pad_down, evs, 1)
          /\ UNCHANGED <<rose, rebinds, aside>>
    \/ \E b \in BOOLEAN : Focused(b) /\ Record("focus", <<>>)
    \/ init /\ RecordInit

\* two gamepads that press, release and disconnect, the focus and the reset
SpecPad == InitWith(PadBinds) /\ [][NextPad]_vars

(***************************************************************************)
(* Typing: key events that carry text, after examples/typing.rs.           *)
(***************************************************************************)
\* the text typed so far, "" when there is none
TextOf(typed) == IF typed = None THEN <<>> ELSE typed[1]

TypingBinds == << <<"Return", << <<Key("Enter")>> >> >> >>

TypingKeys == {"Enter", "KeyA", "KeyB"}

\* the text a key press carries; a release carries none
TypedTexts == {None, Some(<<"a">>), Some(<<"b">>)}

MaxTyped == 2

\* the record of a key event and its text in last.evs
KeyTextEv(id, key, is_pressed, text) ==
    [type |-> "Key", id |-> id, input |-> key, value |-> BoolToF32(is_pressed),
     text |-> text]

NextText ==
    \/ \E id \in DeviceIds, key \in TypingKeys, text \in TypedTexts :
          /\ Len(TextOf(TextAfter(text_typed, text))) <= MaxTyped
          /\ KeyboardInput(id, key, TRUE, text)
          /\ Record("key", <<KeyTextEv(id, key, TRUE, text)>>)
    \/ \E id \in DeviceIds, key \in TypingKeys :
          /\ KeyboardInput(id, key, FALSE, None)
          /\ Record("key", <<KeyTextEv(id, key, FALSE, None)>>)
    \/ init /\ RecordInit

\* key presses with text, key releases and the reset
SpecText == InitWith(TypingBinds) /\ [][NextText]_vars

(***************************************************************************)
(* A gamepad that reports a value that is not a number.                    *)
(***************************************************************************)
NaNVals == {Zero, One, NaN}

NextNaN ==
    \/ \E id \in DeviceIds, key \in Keys, is_pressed \in BOOLEAN :
          KeyboardInput(id, key, is_pressed, None)
              /\ Record("key", <<KeyEv(id, key, is_pressed)>>)
    \/ \E evs \in PollBatches(NaNVals) :
          update_with_gilrs(evs) /\ Record("poll", evs)
    \/ init /\ RecordInit

\* keys, the reset and a gamepad button whose value can be NaN
SpecNaN == Init /\ [][NextNaN]_vars

(***************************************************************************)
(* Registration order: two maps built from the same entries, listed in     *)
(* two orders, that receive the same events.                               *)
(***************************************************************************)
OrderBinds ==
    << <<"Dash", << <<Key("ShiftLeft"), Key("KeyW")>> >> >>,
       <<"Jump", << <<Key("Space")>>, <<GamepadCode(AnyId, "South")>> >> >>,
       <<"Test1", << <<Key("KeyW")>>, <<Key("ShiftLeft"), Key("KeyW")>> >> >> >>

OrderActions == {"Dash", "Jump", "Test1"}

\* the entries of a bind list in the order o
Reorder(binds, o) == [i \in DOMAIN binds |-> binds[o[i]]]

\* Focused(false) on a map value
Unfocus(self) ==
    [self EXCEPT !.action_val =
        [a \in DOMAIN self.action_val |-> ZeroAction(self.action_val[a])]]

\* the record SpecOrder keeps: the second map after the same operation
Twin(self) ==
    /\ other' = self
    /\ after_init' = FALSE
    /\ UNCHANGED <<rose, pad_down, rebinds, moved>>

NextOrder ==
    \/ \E id \in DeviceIds, key \in Keys, is_pressed \in BOOLEAN :
          /\ KeyboardInput(id, key, is_pressed, None)
          /\ Twin(update_val(other, DeviceCode(id, key), BoolToF32(is_pressed)))
          /\ last' = [op |-> "key", evs |-> <<KeyEv(id, key, is_pressed)>>]
    \/ \E evs \in PollBatches(DigitalVals) :
          /\ update_with_gilrs(evs)
          /\ Twin(PollFrom(other, evs, 1))
          /\ last' = [op |-> "poll", evs |-> evs]
    \/ \E b \in BOOLEAN :
          /\ Focused(b)
          /\ Twin(IF b THEN other ELSE Unfocus(other))
          /\ last' = [op |-> "focus", evs |-> <<>>]
    \/ /\ init
       /\ other' = InitResult(other)
       /\ after_init' = TRUE
       /\ last' = [op |-> "init", evs |-> <<>>]
       /\ UNCHANGED <<rose, pad_down, rebinds, moved>>

\* the map built by new(OrderBinds) and the map built by new of the same
\* entries in any other order
InitOrder ==
    \E o \in Orders(DOMAIN OrderBinds) :
        InitMaps(OrderBinds, new(Reorder(OrderBinds, o)))

SpecOrder == InitOrder /\ [][NextOrder]_vars

(***************************************************************************)
(* An action declared with no binds.                                       *)
(***************************************************************************)
IdleBinds ==
    << <<"Idle", <<>>>>,
       <<"Jump", << <<Key("Space")>>, <<GamepadCode(AnyId, "South")>> >> >>,
       <<"LookRight", << <<Key("MouseMoveRight")>> >> >> >>

\* every handler of Next, on a map with an action that has no binds
SpecIdle == InitWith(IdleBinds) /\ [][Next]_vars

(***************************************************************************)
(* Gamepad axes.                                                           *)
(***************************************************************************)
Axes == {"LeftStickX", "LeftStickY", "RightStickX", "RightStickY", "LeftZ",
         "RightZ", "DPadX", "DPadY", "Unknown"}

AxisBinds ==
    << <<"Steer", << <<GamepadCode(AnyId, "LeftStickRight")>>,
                     <<GamepadCode(AnyId, "LeftStickLeft")>> >> >>,
       <<"Zoom", << <<GamepadCode(AnyId, "LeftZ")>>, <<GamepadCode(1, "LeftZ")>> >> >>,
       <<"Misc", << <<GamepadCode(AnyId, "Other")>> >> >> >>

AxisActions == {"Steer", "Zoom", "Misc"}

\* the values an axis reports
AxisVals == {F(-1, 1), Zero, One}

AxisEvents == [id : GamepadIds, type : {"AxisChanged"}, axis : Axes, value : AxisVals]

AxisBatches == UNION { [1..n -> AxisEvents] : n \in 0..MaxPoll }

NextAxis ==
    \/ \E evs \in AxisBatches : update_with_gilrs(evs) /\ Record("poll", evs)
    \/ \E b \in BOOLEAN : Focused(b) /\ Record("focus", <<>>)
    \/ init /\ RecordInit

\* a gamepad whose axes move, the focus and the reset
SpecAxis == InitWith(AxisBinds) /\ [][NextAxis]_vars

(***************************************************************************)
(* One action held through a key of device 1 and a button of gamepad 1.    *)
(***************************************************************************)
RecentBinds ==
    << <<"Hold", << <<DeviceCode(1, "Space")>>, <<GamepadCode(1, "South")>> >> >>,
       <<"Tap", << <<DeviceCode(1, "KeyE")>> >> >> >>

RecentKeys == {"Space", "KeyE", "KeyQ"}

NextRecent ==
    \/ \E id \in DeviceIds, key \in RecentKeys, is_pressed \in BOOLEAN :
          KeyboardInput(id, key, is_pressed, None)
              /\ Record("key", <<KeyEv(id, key, is_pressed)>>)
    \/ \E evs \in PollBatches(DigitalVals) :
          update_with_gilrs(evs) /\ Record("poll", evs)
    \/ init /\ RecordInit

\* keys, a gamepad button and the reset over binds on one device and one
\* gamepad
SpecRecent == InitWith(RecentBinds) /\ [][NextRecent]_vars

SubValue(a, i) == action_val[a][4][i][1]

Slots(a, i) == action_val[a][4][i][2]

RECURSIVE SumFrom(_, _, _)
SumFrom(acc, subs, i) ==
    IF i > Len(subs) THEN acc
    ELSE SumFrom(FAdd(acc, Product(subs[i][2])), subs, i + 1)

\* the value of an action computed from scratch: the sum over its binds of
\* the product of the bind's slots
Recompute(a) == SumFrom(Zero, action_val[a][4], 1)

\* C1: every action's value equals the from-scratch recomputation over the
\* current slots, after any sequence of events.
C1_ValueEqualsRecompute ==
    \A a \in DOMAIN action_val : value(a) = Recompute(a)

\* C3: for Jump, bound to [Space] and to [South], while both binds are
\* active the value is the sum of the two contributions (and may exceed 1.0).
C3_OrSum ==
    (Slots("Jump", 1)[1] # Zero /\ Slots("Jump", 2)[1] # Zero)
        => value("Jump") = FAdd(SubValue("Jump", 1), SubValue("Jump", 2))

\* C2: a bind contributes only while all its slots are nonzero: with any
\* slot at 0.0 its contribution is exactly 0.0.  The chord Dash = [ShiftLeft,
\* KeyW]: pressing ShiftLeft alone leaves the value 0.0, pressing KeyW next
\* makes it 1.0 and sets pressed, releasing ShiftLeft then makes it 0.0 and
\* sets released.
AndSemantics ==
    \A a \in DOMAIN action_val : \A i \in DOMAIN action_val[a][4] :
        (\E j \in DOMAIN Slots(a, i) : Slots(a, i)[j] = Zero) => SubValue(a, i) = Zero

ChordTrace ==
    /\ (Slots("Dash", 1) = <<Zero, Zero>> /\ Slots("Dash", 1)' = <<One, Zero>>)
          => value("Dash")' = Zero
    /\ (Slots("Dash", 1) = <<One, Zero>> /\ Slots("Dash", 1)' = <<One, One>>)
          => (value("Dash")' = One /\ pressed("Dash")')
    /\ (Slots("Dash", 1) = <<One, One>> /\ pressed("Dash")
          /\ Slots("Dash", 1)' = <<Zero, One>>)
          => (value("Dash")' = Zero /\ released("Dash")')

C2_AndSemantics == []AndSemantics /\ [][ChordTrace]_vars

C2_Witness ==
    /\ Slots("Dash", 1) = <<Zero, One>>
    /\ SubValue("Dash", 1) = Zero
    /\ released("Dash")

\* C5: pressed(A) is true only in the tick in which A went from not pressing
\* to pressing.
C5_PressedOnlyInRisingTick ==
    \A a \in Actions : pressed(a) => a \in rose

\* C6: an event that takes A from pressing to not pressing leaves released(A)
\* true, whenever the press was.
C6_ReleaseEdge ==
    [][Event => \A a \in Actions :
                   (pressing(a) /\ ~pressing(a)') => released(a)']_vars

\* C7: an event that takes A from not pressing to pressing leaves pressed(A)
\* true, however many subscriptions of A the event visits.
C7_PressEdge ==
    [][Event => \A a \in Actions :
                   (~pressing(a) /\ pressing(a)') => pressed(a)']_vars

\* C8: when A was pressed in this tick and an event of the same tick releases
\* it, pressed(A) and released(A) are both true afterwards.
C8_PressAndReleaseInOneTick ==
    [][Event => \A a \in Actions :
                   (pressed(a) /\ pressing(a) /\ ~pressing(a)')
                       => (pressed(a)' /\ released(a)')]_vars

\* C9: once pressed(A) is true in a tick, an event of that tick that keeps A
\* pressing leaves pressed(A) true (Jump: Space, then South, value 2.0).
C9_PressedStaysInTick ==
    [][Event => \A a \in Actions :
                   (pressed(a) /\ pressing(a) /\ pressing(a)') => pressed(a)']_vars

\* C10: after init no action is pressed or released, and recently_pressed
\* and text_typed are None.
C10_InitClears ==
    after_init =>
        /\ \A a \in Actions : ~pressed(a) /\ ~released(a)
        /\ recently_pressed = None
        /\ text_typed = None

\* init has run while Jump was held and LookRight had moved: LookRight is
\* back at 0.0 and Jump still pressing
C10_Witness ==
    /\ after_init
    /\ pressing("Jump")
    /\ value("LookRight") = Zero

\* the value of the slot of a subscription <<action, bind index, slot index>>
SlotAt(av, b) == av[b[1]][4][b[2] + 1][2][b[3] + 1]

\* the subscriptions of a code
SubsOf(code) == { bind_hash[code][i] : i \in DOMAIN bind_hash[code] }

\* the action has a slot on a relative-delta identity
HasRelative(a) ==
    \E code \in DOMAIN bind_hash : IsRelative(code) /\ \E b \in SubsOf(code) : b[1] = a

\* C11: after init every slot bound to a mouse-motion or scroll identity holds
\* 0.0 and the actions bound only to such identities have value 0.0, for the
\* any-device form (Look) and for the one-device form (LookDev).
C11_InitResetsRelative ==
    after_init =>
        /\ \A code \in DOMAIN bind_hash :
              IsRelative(code) => \A b \in SubsOf(code) : SlotAt(action_val, b) = Zero
        /\ value("Look") = Zero
        /\ value("LookDev") = Zero

\* C12: init leaves mouse_pos, every slot bound to a key or gamepad identity,
\* and the value and pressing of every action without a slot on a
\* mouse-motion or scroll identity as they were.
C12_InitKeepsLevels ==
    [][after_init' =>
         /\ mouse_pos' = mouse_pos
         /\ \A code \in DOMAIN bind_hash :
               ~IsRelative(code) =>
                   \A b \in SubsOf(code) : SlotAt(action_val', b) = SlotAt(action_val, b)
         /\ \A a \in DOMAIN action_val :
               ~HasRelative(a) => /\ value(a)' = value(a)
                                  /\ pressing(a)' = pressing(a)]_vars

\* init has run with the cursor moved and Hold held by the key and the button
C12_Witness ==
    /\ after_init
    /\ mouse_pos = <<One, Zero>>
    /\ value("Hold") = F(2, 1)
    /\ pressing("Hold")

\* C13: an event of device or gamepad d is applied once to the slots bound to
\* (d, input) and once to the slots bound to (Any, input), each from the
\* slot's own previous value: a mouse motion adds its scaled delta once to the
\* slot of Look (any device) and once to the slot of LookDev (device 1); a key
\* or button event sets the slot of Hold to the event's value.
C13_DualApply ==
    [][/\ last'.op = "motion" =>
              LET x == FMax(FMul(last'.evs[1].delta[1], mouse_scale), Zero)
              IN /\ Slots("Look", 1)[1]' = FAdd(Slots("Look", 1)[1], x)
                 /\ Slots("LookDev", 1)[1]' = FAdd(Slots("LookDev", 1)[1], x)
       /\ (last'.op = "key" /\ last'.evs[1].input = "Space") =>
              Slots("Hold", 1)[1]' = last'.evs[1].value
       /\ (last'.op = "poll" /\ Len(last'.evs) = 1) =>
              Slots("Hold", 2)[1]' = last'.evs[1].value]_vars

\* the second motion to the right in a tick: both scopes hold the sum of the
\* two deltas
C13_Witness ==
    /\ last.op = "motion"
    /\ Slots("Look", 1)[1] = FAdd(FMul(F(64, 1), mouse_scale), FMul(F(64, 1), mouse_scale))
    /\ Slots("LookDev", 1)[1] = Slots("Look", 1)[1]

\* every event of the batch is a Disconnected
AllDisconnected(evs) ==
    Len(evs) > 0 /\ \A i \in DOMAIN evs : evs[i].type = "Disconnected"

\* C14: Fire is bound to South of any gamepad.  While Fire is pressing and the
\* window has focus, the disconnect of a gamepad that leaves another gamepad
\* holding South leaves Fire pressing.
C14_DisconnectKeepsOtherPad ==
    [][(/\ last'.op = "poll"
        /\ AllDisconnected(last'.evs)
        /\ focus
        /\ pressing("Fire")
        /\ pad_down' # {}) => pressing("Fire")']_vars

\* the gamepads whose last event in the batch is a Disconnected
DisconnectedIn(evs) ==
    { id \in PadIds : \E i \in DOMAIN evs :
          /\ evs[i].type = "Disconnected" /\ evs[i].id = id
          /\ \A j \in DOMAIN evs : j > i => evs[j].id # id }

\* C15: after a poll that ends with the Disconnected of a gamepad, every slot
\* bound to an input of that gamepad holds 0.0, the binds with such a slot
\* contribute 0.0, and FireOne, bound to gamepad 1 alone, is not pressing
\* once gamepad 1 is disconnected.
C15_DisconnectClears ==
    last.op = "poll" =>
        \A id \in DisconnectedIn(last.evs) :
            /\ \A code \in DOMAIN bind_hash :
                  (code.kind = "Gamepad" /\ code.id = id) =>
                      \A b \in SubsOf(code) :
                          /\ SlotAt(action_val, b) = Zero
                          /\ SubValue(b[1], b[2] + 1) = Zero
            /\ id = 1 => ~pressing("FireOne")

\* gamepad 1 was holding South when its Disconnected was polled
C15_Witness ==
    /\ last.op = "poll"
    /\ 1 \in DisconnectedIn(last.evs)
    /\ released("FireOne")

\* the code of the key event the last operation carried
LastKey == DeviceCode(last.evs[1].id, last.evs[1].input)

\* C16: a key event whose code has no subscription, for the device and for
\* any device, changes no action's value, flags or slots; it sets
\* recently_pressed to the code of the device when the value is at least
\* press_sensitivity, never to the any-device code, and leaves
\* recently_pressed alone otherwise.
C16_UnboundIdentity ==
    [][(/\ last'.op = "key"
        /\ LastKey' \notin DOMAIN bind_hash
        /\ set_any(LastKey') \notin DOMAIN bind_hash) =>
           /\ action_val' = action_val
           /\ bind_hash' = bind_hash
           /\ recently_pressed' =
                 IF FGe(last'.evs[1].value, press_sensitivity)
                 THEN Some(LastKey') ELSE recently_pressed]_vars

\* KeyQ, which nothing is bound to, was pressed while Hold was held
C16_Witness ==
    /\ last.op = "key"
    /\ last.evs[1].input = "KeyQ"
    /\ recently_pressed = Some(DeviceCode(1, "KeyQ"))
    /\ pressing("Hold")

\* the codes an event is applied to, in their device or gamepad form
AppliedBy(ev) ==
    CASE ev.type = "Key" -> {DeviceCode(ev.id, ev.input)}
      [] ev.type = "Motion" -> { DeviceCode(ev.id, i) : i \in MoveInputs }
      [] ev.type = "ButtonChanged" -> {GamepadCode(ev.id, ButtonInput(ev.button))}
      [] ev.type = "Disconnected" ->
           { GamepadCode(ev.id, PadInputs[i]) : i \in DOMAIN PadInputs }

Applied(evs) == UNION { AppliedBy(evs[i]) : i \in DOMAIN evs }

\* the action has a slot on one of the codes or on its any-device form
Reaches(codes, a) ==
    \E code \in codes : \E c \in {code, set_any(code)} :
        c \in DOMAIN bind_hash /\ \E b \in SubsOf(c) : b[1] = a

\* C17: a key, mouse-motion or gamepad event leaves the value, flags,
\* contributions and slots of every action that has no slot on the event's
\* codes, or on their any-device forms, as they were.
C17_OnlyReachableMutated ==
    [][last'.op \in {"key", "motion", "poll"} =>
         \A a \in DOMAIN action_val :
             ~Reaches(Applied(last'.evs), a) => action_val'[a] = action_val[a]]_vars

\* a key event reached Hold alone: Look keeps its pressed flag and LookDev its
\* value
C17_Witness ==
    /\ last.op = "key"
    /\ last.evs[1].input = "Space"
    /\ pressed("Hold")
    /\ pressed("Look")
    /\ pressing("LookDev")

\* C18: add_binds leaves every bind that existed before with its slot list,
\* its slot values and its contribution, also when it adds a bind to an
\* action that has binds.
C18_AddKeepsExisting ==
    [][last'.op = "add" =>
         \A a \in DOMAIN action_val : \A i \in DOMAIN action_val[a][4] :
             action_val'[a][4][i] = action_val[a][4][i]]_vars

\* C19: after set_binds(b) every action reads as in a map freshly built with
\* new(b): value 0.0, not pressing, not pressed, not released, whatever was
\* held when set_binds was called.
C19_SetBindsIsFresh ==
    [][last'.op = "set" =>
         \A a \in BindActions :
             /\ value(a)' = Zero
             /\ ~pressing(a)'
             /\ ~pressed(a)'
             /\ ~released(a)']_vars

\* the two bind lists hold the same entries, in any order of the actions
SameBinds(r, b) ==
    /\ Len(r) = Len(b)
    /\ \A i \in DOMAIN b : \E j \in DOMAIN r : r[j] = b[i]

\* C20: on the map built by new(BindsA), get_binds returns BindsA up to the
\* order of the actions, for every iteration order of bind_hash.
C20_GetBindsReturnsBinds ==
    (last.op = "get" /\ rebinds = 0) => SameBinds(last.evs, BindsA)

\* C21: a key event that carries text appends it to the text typed since the
\* last init; a key event that carries none leaves text_typed as it was.
C21_TextAccumulates ==
    [][last'.op = "key" =>
         text_typed' = IF last'.evs[1].text = None THEN text_typed
                       ELSE Some(TextOf(text_typed) \o last'.evs[1].text[1])]_vars

\* C22: no bind's contribution and no action's value is ever NaN, also after
\* an event whose value is NaN, and an action whose value would be NaN is not
\* pressing.
C22_NaNNormalized ==
    \A a \in DOMAIN action_val :
        /\ ~IsNaN(value(a))
        /\ \A i \in DOMAIN action_val[a][4] : ~IsNaN(SubValue(a, i))

\* what value, pressing, pressed and released return for an action on a map
\* value
Reads(self, a) ==
    IF a \in DOMAIN self.action_val
    THEN <<self.action_val[a][1], FGe(self.action_val[a][1], press_sensitivity),
           self.action_val[a][2], self.action_val[a][3]>>
    ELSE <<Zero, FGe(Zero, press_sensitivity), FALSE, FALSE>>

C24_NoBindsNeverPressed ==
    /\ value("Idle") = Zero
    /\ ~pressing("Idle")
    /\ ~pressed("Idle")
    /\ ~released("Idle")

\* the map was built without an entry for Idle, Jump has just been pressed
\* and the mouse has moved
C24_Witness ==
    /\ "Idle" \notin DOMAIN action_val
    /\ pressed("Jump")
    /\ pressing("LookRight")
    /\ value("Idle") = Zero

\* f32::EPSILON: the distance from 1.0 to the next value
EPSILON == <<0, 1, 1 - MantBits>>

FAbs(x) == IF IsNaN(x) THEN x ELSE <<x[1], Abs(x[2]), x[3]>>

\* C25: every action's value is exactly 0.0 or has magnitude at least
\* EPSILON: a result within EPSILON of zero is stored as 0.0.
C25_EpsilonSnap ==
    \A a \in DOMAIN action_val :
        value(a) = Zero \/ FGe(FAbs(value(a)), EPSILON)

\* the values of the slots bound to an input of gamepad id or of any gamepad
PadSlots(av, id, input) ==
    { SlotAt(av, b) : b \in UNION { SubsOf(code) :
          code \in {GamepadCode(id, input), GamepadCode(AnyId, input)}
                       \cap DOMAIN bind_hash } }

\* C26: after a poll of one AxisChanged(axis, v) while focused, the slots
\* bound to axis_pos(axis) hold max(v, 0) and the slots bound to
\* axis_neg(axis) hold max(-v, 0), for every axis.
C26_AxisSplit ==
    [][(last'.op = "poll" /\ Len(last'.evs) = 1 /\ focus) =>
         LET ev == last'.evs[1]
         IN /\ \A s \in PadSlots(action_val', ev.id, axis_pos(ev.axis)) :
                   s = FMax(ev.value, Zero)
            /\ \A s \in PadSlots(action_val', ev.id, axis_neg(ev.axis)) :
                   s = FMax(FNeg(ev.value), Zero)]_vars

\* C27: recently_pressed is None or the code of one device or gamepad, never
\* a code of the any-device form.
C27_RecentlyPressedConcrete ==
    recently_pressed = None \/ recently_pressed[1].id # AnyId

\* a mouse motion of device 1 was applied to the slot of LookDev and, in its
\* any-device form, to the slot of Look; the code recorded is the device's
C27_Witness ==
    /\ last.op = "motion"
    /\ pressing("Look")
    /\ pressing("LookDev")
    /\ recently_pressed = Some(DeviceCode(1, "MouseMoveRight"))

\* C28: a key event or a single button event whose value is below
\* press_sensitivity does not make its code the recently pressed one:
\* recently_pressed is that code afterwards only if it was before.
C28_ReleaseNotRecorded ==
    [][/\ (last'.op = "key" /\ ~FGe(last'.evs[1].value, press_sensitivity)) =>
              (recently_pressed' = Some(LastKey') => recently_pressed = Some(LastKey'))
       /\ (/\ last'.op = "poll"
           /\ Len(last'.evs) = 1
           /\ ~FGe(last'.evs[1].value, press_sensitivity)) =>
              LET code == GamepadCode(last'.evs[1].id, ButtonInput(last'.evs[1].button))
              IN recently_pressed' = Some(code) => recently_pressed = Some(code)]_vars

(***************************************************************************)
(* Relative motion: two mice that move and scroll, with the record of what *)
(* each sent since the last init.                                          *)
(***************************************************************************)
MotionBinds ==
    << <<"Look", << <<DeviceCode(AnyId, "MouseMoveRight")>> >> >>,
       <<"LookOne", << <<DeviceCode(1, "MouseMoveRight")>> >> >>,
       <<"Wheel", << <<DeviceCode(AnyId, "MouseScrollUp")>> >> >>,
       <<"WheelOne", << <<DeviceCode(1, "MouseScrollUp")>> >> >> >>

MotionIds == {1, 2}

\* LineDelta(x, y) of a scroll event
ScrollDeltas == {<<Zero, F(1, 2)>>}

ScrollEv(id, delta) == [type |-> "Scroll", id |-> id, delta |-> delta]

\* the scaled delta of a mouse motion, by direction
MotionParts(delta) ==
    LET x == FMul(delta[1], mouse_scale)
        y == FMul(delta[2], mouse_scale)
    IN [MouseMoveRight |-> FMax(x, Zero), MouseMoveLeft |-> FMax(FNeg(x), Zero),
        MouseMoveDown |-> FMax(y, Zero), MouseMoveUp |-> FMax(FNeg(y), Zero)]

\* the scaled delta of a scroll, by direction
ScrollParts(delta) ==
    LET x == FMul(delta[1], scroll_scale)
        y == FMul(delta[2], scroll_scale)
    IN [MouseScrollUp |-> FMax(y, Zero), MouseScrollDown |-> FMax(FNeg(y), Zero),
        MouseScrollLeft |-> FMax(x, Zero), MouseScrollRight |-> FMax(FNeg(x), Zero)]

\* the record after an event of device id: its parts are added to the sums
\* of the device's codes and of the any-device codes
Tally(id, parts, ev) ==
    /\ moved' = [code \in DOMAIN moved |->
                    IF code.id \in {AnyId, id} /\ code.input \in DOMAIN parts
                    THEN FAdd(moved[code], parts[code.input]) ELSE moved[code]]
    /\ after_init' = FALSE
    /\ last' = ev
    /\ UNCHANGED <<rose, pad_down, rebinds, other>>

NextMotion ==
    \/ \E id \in MotionIds, delta \in MouseDeltas :
          /\ MouseMotion(id, delta)
          /\ Tally(id, MotionParts(delta), [op |-> "motion", evs |-> <<MotionEv(id, delta)>>])
    \/ \E id \in MotionIds, delta \in ScrollDeltas :
          /\ MouseWheel(id, delta)
          /\ Tally(id, ScrollParts(delta), [op |-> "scroll", evs |-> <<ScrollEv(id, delta)>>])
    \/ /\ init
       /\ moved' = [code \in DOMAIN moved |-> Zero]
       /\ after_init' = TRUE
       /\ last' = [op |-> "init", evs |-> <<>>]
       /\ UNCHANGED <<rose, pad_down, rebinds, other>>

\* two mice that move and scroll, and the reset
SpecMotion == InitWith(MotionBinds) /\ [][NextMotion]_vars

\* C29: the slot of every mouse-motion and scroll code, of any device or of
\* one, holds the sum of the scaled deltas that the events since the last
\* init sent in its direction: from all devices for an any-device code, from
\* its device for a device code.
C29_RelativeAccumulates ==
    \A code \in DOMAIN moved :
        \A b \in SubsOf(code) : SlotAt(action_val, b) = moved[code]

\* C30: right after Focused(false) every action's value, every bind's
\* contribution and every slot is 0.0, no action is pressing, each
\* contribution is the product of its slots and each value the sum of the
\* contributions.
C30_UnfocusZeroes ==
    (last.op = "focus" /\ ~focus) =>
        \A a \in DOMAIN action_val :
            /\ value(a) = Zero
            /\ ~pressing(a)
            /\ value(a) = Recompute(a)
            /\ \A i \in DOMAIN action_val[a][4] :
                  /\ SubValue(a, i) = Zero
                  /\ SubValue(a, i) = Product(Slots(a, i))
                  /\ \A j \in DOMAIN Slots(a, i) : Slots(a, i)[j] = Zero

\* the window lost focus in the tick in which the chord of Dash and the key
\* of Jump were pressed
C30_Witness ==
    /\ last.op = "focus"
    /\ ~focus
    /\ pressed("Dash")
    /\ pressed("Jump")

\* C31: a poll made while the window has no focus leaves every action's
\* value, flags, contributions and slots and recently_pressed as they were,
\* whatever events were pending; a poll of one ButtonChanged made while the
\* window has focus stores the event's value in the slot of Fire and, for
\* gamepad 1, in the slot of FireOne.
C31_UnfocusedPollIgnored ==
    [][last'.op = "poll" =>
         IF ~focus
         THEN /\ action_val' = action_val
              /\ bind_hash' = bind_hash
              /\ recently_pressed' = recently_pressed
         ELSE (Len(last'.evs) = 1 /\ last'.evs[1].type = "ButtonChanged") =>
                 /\ Slots("Fire", 1)[1]' = last'.evs[1].value
                 /\ last'.evs[1].id = 1 =>
                        Slots("FireOne", 1)[1]' = last'.evs[1].value]_vars

\* gamepad 1 pressed South while the window had no focus: the poll took the
\* event and the map did not move
C31_Witness ==
    /\ last.op = "poll"
    /\ Len(last.evs) = 1
    /\ ~focus
    /\ pad_down = {1}
    /\ ~pressing("Fire")
    /\ recently_pressed = None

\* C32: every subscription <<action, bind index, slot index>> in bind_hash
\* names an action that has an entry in action_val, a bind of that action
\* and a slot of that bind, after new and after any add_binds and set_binds.
C32_IndexValid ==
    \A code \in DOMAIN bind_hash : \A b \in SubsOf(code) :
        /\ b[1] \in DOMAIN action_val
        /\ b[2] + 1 \in DOMAIN action_val[b[1]][4]
        /\ b[3] + 1 \in DOMAIN action_val[b[1]][4][b[2] + 1][2]

\* add_binds gave Jump, which had a bind, a bind on KeyC, and KeyC was then
\* pressed: the event was processed through the subscription add_binds wrote
C32_Witness ==
    /\ rebinds > 0
    /\ last.op = "key"
    /\ Key("KeyC") \in DOMAIN bind_hash
    /\ bind_hash[Key("KeyC")][1][1] = "Jump"
    /\ SlotAt(action_val, bind_hash[Key("KeyC")][1]) = One

=============================================================================
